---- MODULE Spec2Model ----
(***************************************************************************)
(* The cashaddr codec of common/utxobased/keymanager/bitcoincashUtils      *)
(* (hashToCashAddress, cashAddressToHash and their helpers) and the        *)
(* server-cache persistence of PluginState (saveServerCache,               *)
(* dirtyServerCache).                                                      *)
(*                                                                         *)
(* Strings are sequences of character codes (charCodeAt values), byte      *)
(* buffers are sequences over 0..255, symbol arrays are sequences over     *)
(* 0..31.  A BN checksum, which polymod keeps below 2^40, is the sequence  *)
(* of its eight base-32 digits, most significant first.  A function that   *)
(* can throw yields the record [threw |-> kind] for a thrown Error and a   *)
(* record without that field for a returned value.                         *)
(***************************************************************************)
EXTENDS Integers, Sequences, FiniteSets, TLC

VARIABLES
  pc,               \* codec: "start", "ready" (an address to decode), "done"
  encScriptHash,    \* hashToCashAddress: the scriptHash argument (hex string)
  encType,          \* hashToCashAddress: the type argument
  encPrefix,        \* hashToCashAddress: the cashAddrPrefix argument
  encInclude,       \* hashToCashAddress: the includePrefix argument
  addr,             \* cashAddressToHash: the address argument
  origin,           \* how addr was obtained
  defects,          \* the number of corruptions applied to addr
  candidates,       \* cashAddressToHash: the cashAddrPrefixes argument
  resolved,         \* cashAddressToHash: the local `prefix` at its end
  outcome,          \* what the last call returned or threw
  serverCacheDirty, \* PluginState: the serverCacheDirty flag
  serversRev,       \* PluginState: the revision of servers_ in memory
  flaggedRev,       \* the last revision flagged through dirtyServerCache
  diskRev,          \* the revision of servers_ held by serverCache.json
  saves,            \* the saveServerCache calls awaiting memlet.setJson
  saveCalls         \* the number of saveServerCache calls made

codecVars == << pc, encScriptHash, encType, encPrefix, encInclude, addr, origin,
                defects, candidates, resolved, outcome >>
cacheVars == << serverCacheDirty, serversRev, flaggedRev, diskRev, saves,
                saveCalls >>
vars == << codecVars, cacheVars >>

----------------------------------------------------------------------------
(* JavaScript 32-bit integer operators, as convertBits uses them.          *)

MinInt32 == (-1073741824) * 2

\* The low 31 bits of the int32 a.
Low31(a) == IF a >= 0 THEN a ELSE a - MinInt32

\* a << n on int32 (1 <= n <= 31): bits shifted past bit 31 are lost and
\* bit 31 of the result is its sign.
Shl32(a, n) ==
  LET low  == IF n = 1 THEN Low31(a) ELSE Low31(a) % (2 ^ (32 - n))
      top  == low \div (2 ^ (31 - n))
      rest == low % (2 ^ (31 - n))
  IN  rest * (2 ^ n) + top * MinInt32

\* a >> n on int32: the arithmetic shift.
Sar32(a, n) == a \div (2 ^ n)

\* a & mask for a mask of the form 2^k - 1.
AndMask(a, mask) == a % (mask + 1)

\* Bitwise exclusive or of two naturals below 2^w.
RECURSIVE XorBits(_, _, _)
XorBits(a, b, w) ==
  IF w = 0 THEN 0
  ELSE ((a + b) % 2) + 2 * XorBits(a \div 2, b \div 2, w - 1)

\* The exclusive or of the 5-bit values a - 1 and b - 1, tabulated.
XorTable ==
  SubSeq([a \in 1..32 |->
            SubSeq([b \in 1..32 |-> XorBits(a - 1, b - 1, 5)], 1, 32)],
         1, 32)

xor5(a, b) == XorTable[a + 1][b + 1]

----------------------------------------------------------------------------
(* BN values below 2^40 as eight base-32 digits.                           *)

\* The BN whose upper 20 bits are hi and whose lower 20 bits are lo.
BN40(hi, lo) ==
  << hi \div 32768, (hi \div 1024) % 32, (hi \div 32) % 32, hi % 32,
     lo \div 32768, (lo \div 1024) % 32, (lo \div 32) % 32, lo % 32 >>

BNxor(m, n) ==
  << xor5(m[1], n[1]), xor5(m[2], n[2]), xor5(m[3], n[3]), xor5(m[4], n[4]),
     xor5(m[5], n[5]), xor5(m[6], n[6]), xor5(m[7], n[7]), xor5(m[8], n[8]) >>

BNZero == BN40(0, 0)

BNOne == BN40(0, 1)

GENERATOR ==
  << BN40(\h98f2b, \hc8e61),
     BN40(\h79b76, \hd99e2),
     BN40(\hf33e5, \hfb3c4),
     BN40(\hae2ea, \hbe2a8),
     BN40(\h1e4f4, \h3e470) >>

\* polymod's inner loop: GENERATOR[i] is xored into the checksum for each
\* set bit i of topBits.
RECURSIVE PolymodGen(_, _, _)
PolymodGen(checksum, topBits, i) ==
  IF i >= Len(GENERATOR) THEN checksum
  ELSE PolymodGen(IF (topBits \div (2 ^ i)) % 2 = 1
                    THEN BNxor(checksum, GENERATOR[i + 1])
                    ELSE checksum,
                  topBits, i + 1)

\* What the inner loop xors into the checksum, for each value of topBits
\* (xor is associative: PolymodGen(c, t, 0) = c xor PolymodGen(0, t, 0)).
GeneratorMix ==
  SubSeq([t \in 1..32 |-> PolymodGen(BNZero, t - 1, 0)], 1, 32)

\* A step that only shifts the value in: a checksum with no error detection.
PolymodStepNoMix(checksum, value) ==
  << checksum[2], checksum[3], checksum[4], checksum[5],
     checksum[6], checksum[7], checksum[8], value >>

\* One pass of polymod's outer loop: topBits = checksum.shrn(35) is the
\* first digit; and(0x07ffffffff) drops it; shln(5).xor(value) appends the
\* value as the last digit; then the inner loop runs.
PolymodStep(checksum, value) ==
  BNxor(<< checksum[2], checksum[3], checksum[4], checksum[5],
           checksum[6], checksum[7], checksum[8], value >>,
        GeneratorMix[checksum[1] + 1])

\* The outer loop over data[lo..hi], in order, from the given checksum.  The
\* range is walked by halves only to keep the evaluation shallow.
RECURSIVE PolymodLoop(_, _, _, _)
PolymodLoop(data, lo, hi, checksum) ==
  IF lo > hi THEN checksum
  ELSE IF lo = hi THEN PolymodStep(checksum, data[lo])
  ELSE LET mid   == (lo + hi) \div 2
           first == PolymodLoop(data, lo, mid, checksum)
       IN  IF Len(first) = 8
             THEN PolymodLoop(data, mid + 1, hi, first)
             ELSE first

polymod(data) == BNxor(PolymodLoop(data, 1, Len(data), BNOne), BNOne)

----------------------------------------------------------------------------
(* convertBits.                                                            *)

Threw(kind) == [threw |-> kind]
IsThrow(v) == "threw" \in DOMAIN v

\* The inner while loop: emit a group for as long as bits >= to.
RECURSIVE ConvertEmit(_, _, _, _, _)
ConvertEmit(accumulator, bits, to, mask, result) ==
  IF bits >= to
    THEN ConvertEmit(accumulator, bits - to, to, mask,
                     Append(result, AndMask(Sar32(accumulator, bits - to), mask)))
    ELSE [bits |-> bits, result |-> result]

\* One pass of the for loop, from the loop state s (accumulator, bits,
\* result); a throw ends the loop.
ConvertStep(s, value, from, to) ==
  IF value < 0 \/ Sar32(value, from) # 0 THEN Threw("InvalidArgument")
  ELSE LET acc == Shl32(s.accumulator, from) + value
           e   == ConvertEmit(acc, s.bits + from, to, 2 ^ to - 1, s.result)
       IN  [accumulator |-> acc, bits |-> e.bits, result |-> e.result]

\* The for loop over data[lo..hi], in order (walked by halves, as in
\* PolymodLoop).
RECURSIVE ConvertLoop(_, _, _, _, _, _)
ConvertLoop(data, from, to, lo, hi, s) ==
  IF lo > hi THEN s
  ELSE IF lo = hi THEN ConvertStep(s, data[lo], from, to)
  ELSE LET mid   == (lo + hi) \div 2
           first == ConvertLoop(data, from, to, lo, mid, s)
       IN  IF IsThrow(first)
             THEN first
             ELSE ConvertLoop(data, from, to, mid + 1, hi, first)

\* A regrouping that never rejects the padding: strict mode dropped.
convertBitsLax(data, from, to, strict) ==
  LET l    == ConvertLoop(data, from, to, 1, Len(data),
                          [accumulator |-> 0, bits |-> 0, result |-> << >>])
      mask == 2 ^ to - 1
  IN  IF IsThrow(l) THEN l
      ELSE IF ~strict /\ l.bits > 0
        THEN [result |->
                Append(l.result,
                       AndMask(Shl32(l.accumulator, to - l.bits), mask))]
      ELSE [result |-> l.result]

convertBits(data, from, to, strict) ==
  LET l    == ConvertLoop(data, from, to, 1, Len(data),
                          [accumulator |-> 0, bits |-> 0, result |-> << >>])
      mask == 2 ^ to - 1
  IN  IF IsThrow(l) THEN l
      ELSE IF ~strict
        THEN IF l.bits > 0
               THEN [result |->
                       Append(l.result,
                              AndMask(Shl32(l.accumulator, to - l.bits), mask))]
               ELSE [result |-> l.result]
      ELSE IF l.bits >= from
              \/ AndMask(Shl32(l.accumulator, to - l.bits), mask) # 0
        THEN Threw("InvalidPadding")
      ELSE [result |-> l.result]

prefixToArray(prefix) == [i \in 1..Len(prefix) |-> prefix[i] % 32]

----------------------------------------------------------------------------
(* Strings.                                                                *)

COLON == 58

toLowerCase(string) ==
  [i \in 1..Len(string) |->
     IF string[i] \in 65..90 THEN string[i] + 32 ELSE string[i]]

toUpperCase(string) ==
  [i \in 1..Len(string) |->
     IF string[i] \in 97..122 THEN string[i] - 32 ELSE string[i]]

\* string.split(':'): the pieces between the separators, empty ones kept.
\* Piece k runs from after the (k-1)-th separator to before the k-th.
split(string) ==
  LET seps     == {i \in 1..Len(string) : string[i] = COLON}
      nth(k)   == IF k = 0 THEN 0
                  ELSE IF k > Cardinality(seps) THEN Len(string) + 1
                  ELSE CHOOSE i \in seps :
                         Cardinality({j \in seps : j < i}) = k - 1
  IN  [k \in 1..(Cardinality(seps) + 1) |->
         SubSeq(string, nth(k - 1) + 1, nth(k) - 1)]

\* The value of a hexadecimal digit, -1 for any other character.
HexValue(c) ==
  IF c \in 48..57 THEN c - 48
  ELSE IF c \in 97..102 THEN c - 87
  ELSE IF c \in 65..70 THEN c - 55
  ELSE -1

\* Buffer.from(string, 'hex'): one byte for each pair of hexadecimal digits,
\* up to the first pair that is not one; a trailing odd character is dropped.
BufferFromHex(string) ==
  LET pairs == Len(string) \div 2
      bad   == {k \in 1..pairs : HexValue(string[2 * k - 1]) < 0
                                  \/ HexValue(string[2 * k]) < 0}
      n     == IF bad = {} THEN pairs
               ELSE (CHOOSE k \in bad : \A j \in bad : k <= j) - 1
  IN  [k \in 1..n |->
         16 * HexValue(string[2 * k - 1]) + HexValue(string[2 * k])]

----------------------------------------------------------------------------
(* The base32 module: the 32-character alphabet and its two maps.          *)

\* "qpzry9x8gf2tvdw0s3jn54khce6mua7l"
CHARSET ==
  << 113, 112, 122, 114, 121, 57, 120, 56, 103, 102, 50, 116, 118, 100, 119,
     48, 115, 51, 106, 110, 53, 52, 107, 104, 99, 101, 54, 109, 117, 97, 55,
     108 >>

\* The symbol of the character with code c - 1, -1 when it has none.
CHARSET_INVERSE_INDEX ==
  SubSeq([c \in 1..128 |->
            IF \E k \in 1..Len(CHARSET) : CHARSET[k] = c - 1
              THEN (CHOOSE k \in 1..Len(CHARSET) : CHARSET[k] = c - 1) - 1
              ELSE -1],
         1, 128)

SymbolOf(c) == CHARSET_INVERSE_INDEX[toLowerCase(<< c >>)[1] + 1]

encode(data) == [i \in 1..Len(data) |-> CHARSET[data[i] + 1]]

decode(string) ==
  IF \E i \in 1..Len(string) : SymbolOf(string[i]) < 0
    THEN Threw("InvalidCharacter")
    ELSE [result |-> [i \in 1..Len(string) |-> SymbolOf(string[i])]]

----------------------------------------------------------------------------
(* hashToCashAddress.                                                      *)

pubkeyhash == "pubkeyhash"
scripthash == "scripthash"

\* The eight 5-bit groups of a checksum, most significant first.
checksumToArray(checksum) == checksum

\* Type bits that do not tell the two types apart.
getTypeBitsFlat(type) ==
  CASE type = pubkeyhash -> 0
    [] type = scripthash -> 0
    [] OTHER -> -1

getTypeBits(type) ==
  CASE type = pubkeyhash -> 0
    [] type = scripthash -> 8
    [] OTHER -> -1

getHashSizeBits(hash) ==
  CASE Len(hash) * 8 = 160 -> 0
    [] Len(hash) * 8 = 192 -> 1
    [] Len(hash) * 8 = 224 -> 2
    [] Len(hash) * 8 = 256 -> 3
    [] Len(hash) * 8 = 320 -> 4
    [] Len(hash) * 8 = 384 -> 5
    [] Len(hash) * 8 = 448 -> 6
    [] Len(hash) * 8 = 512 -> 7
    [] OTHER -> -1

eight0 == << 0, 0, 0, 0, 0, 0, 0, 0 >>

\* Lines 159 and 163-164: the payload symbols followed by the checksum of
\* prefix symbols, separator, payload symbols and eight zeros.
WithChecksum(cashAddrPrefix, payloadData) ==
  LET prefixData   == prefixToArray(cashAddrPrefix) \o << 0 >>
      checksumData == prefixData \o payloadData \o eight0
  IN  payloadData \o checksumToArray(polymod(checksumData))

hashToCashAddress(scriptHash, type, cashAddrPrefix, includePrefix) ==
  LET hashBuffer  == BufferFromHex(scriptHash)
      versionByte == getTypeBits(type) + getHashSizeBits(hashBuffer)
      payloadData == convertBits(<< versionByte >> \o hashBuffer, 8, 5, FALSE)
      payload     == WithChecksum(cashAddrPrefix, payloadData.result)
  IN  IF getTypeBits(type) < 0 THEN Threw("InvalidType")
      ELSE IF getHashSizeBits(hashBuffer) < 0 THEN Threw("InvalidHashSize")
      ELSE IF includePrefix
        THEN [address |-> cashAddrPrefix \o << COLON >> \o encode(payload)]
        ELSE [address |-> encode(payload)]

----------------------------------------------------------------------------
(* cashAddressToHash.                                                      *)

getHashSize(versionByte) ==
  CASE versionByte % 8 = 0 -> 160
    [] versionByte % 8 = 1 -> 192
    [] versionByte % 8 = 2 -> 224
    [] versionByte % 8 = 3 -> 256
    [] versionByte % 8 = 4 -> 320
    [] versionByte % 8 = 5 -> 384
    [] versionByte % 8 = 6 -> 448
    [] versionByte % 8 = 7 -> 512
    [] OTHER -> 0

hasSingleCase(string) ==
  string = toLowerCase(string) \/ string = toUpperCase(string)

validChecksum(prefix, payload) ==
  polymod(prefixToArray(prefix) \o << 0 >> \o payload) = BNZero

\* versionByte & 120: bits 3 to 6.
getType(versionByte) ==
  CASE (versionByte \div 8) % 16 = 0 -> pubkeyhash
    [] (versionByte \div 8) % 16 = 1 -> scripthash
    [] OTHER -> "InvalidAddressType"

\* The value prefix == null.
NoPrefix == << -1 >>

\* A search that never tries the candidate it is asked to start at.
RECURSIVE FindPrefixSkipFirst(_, _, _)
FindPrefixSkipFirst(cashAddrPrefixes, payload, i) ==
  IF i + 1 > Len(cashAddrPrefixes) THEN NoPrefix
  ELSE IF polymod(prefixToArray(cashAddrPrefixes[i + 1]) \o << 0 >> \o payload)
          = BNZero
    THEN cashAddrPrefixes[i + 1]
  ELSE FindPrefixSkipFirst(cashAddrPrefixes, payload, i + 1)

\* A search from the end of the list: the last validating candidate wins.
RECURSIVE FindPrefixLast(_, _, _)
FindPrefixLast(cashAddrPrefixes, payload, i) ==
  LET j == Len(cashAddrPrefixes) + 1 - i
  IN  IF i > Len(cashAddrPrefixes) THEN NoPrefix
      ELSE IF polymod(prefixToArray(cashAddrPrefixes[j]) \o << 0 >> \o payload)
              = BNZero
        THEN cashAddrPrefixes[j]
      ELSE FindPrefixLast(cashAddrPrefixes, payload, i + 1)

\* Lines 239-245: the first candidate that validates the checksum.
RECURSIVE FindPrefix(_, _, _)
FindPrefix(cashAddrPrefixes, payload, i) ==
  IF i > Len(cashAddrPrefixes) THEN NoPrefix
  ELSE IF validChecksum(cashAddrPrefixes[i], payload) THEN cashAddrPrefixes[i]
  ELSE FindPrefix(cashAddrPrefixes, payload, i + 1)

\* A decoder that counts the separators before it looks at the case.
ResolvePrefixFormatFirst(address, cashAddrPrefixes) ==
  LET lower   == toLowerCase(address)
      pieces  == split(lower)
      payload == decode(toLowerCase(pieces[Len(pieces)]))
  IN  IF Len(pieces) > 2 THEN Threw("InvalidFormat")
      ELSE IF ~hasSingleCase(address) THEN Threw("MixedCase")
      ELSE IF IsThrow(payload) THEN payload
      ELSE IF Len(pieces) = 2
        THEN IF ~validChecksum(pieces[1], payload.result)
               THEN Threw("InvalidChecksum")
               ELSE [prefix |-> pieces[1], payload |-> payload.result]
      ELSE LET found == FindPrefix(cashAddrPrefixes, payload.result, 1)
           IN  IF found = NoPrefix
                 THEN Threw("InvalidChecksum")
                 ELSE [prefix |-> found, payload |-> payload.result]

\* A decoder that accepts an explicit prefix only if it is a candidate.
ResolvePrefixListed(address, cashAddrPrefixes) ==
  LET lower   == toLowerCase(address)
      pieces  == split(lower)
      payload == decode(toLowerCase(pieces[Len(pieces)]))
  IN  IF ~hasSingleCase(address) THEN Threw("MixedCase")
      ELSE IF Len(pieces) > 2 THEN Threw("InvalidFormat")
      ELSE IF IsThrow(payload) THEN payload
      ELSE IF Len(pieces) = 2
        THEN IF \/ ~validChecksum(pieces[1], payload.result)
                \/ \A c \in 1..Len(cashAddrPrefixes) :
                     cashAddrPrefixes[c] # pieces[1]
               THEN Threw("InvalidChecksum")
               ELSE [prefix |-> pieces[1], payload |-> payload.result]
      ELSE LET found == FindPrefix(cashAddrPrefixes, payload.result, 1)
           IN  IF found = NoPrefix
                 THEN Threw("InvalidChecksum")
                 ELSE [prefix |-> found, payload |-> payload.result]

\* Lines 211-249: the locals `prefix` and `payload` once the checksum has
\* been validated, or the error thrown before that.
ResolvePrefix(address, cashAddrPrefixes) ==
  LET lower   == toLowerCase(address)
      pieces  == split(lower)
      payload == decode(toLowerCase(pieces[Len(pieces)]))
  IN  IF ~hasSingleCase(address) THEN Threw("MixedCase")
      ELSE IF Len(pieces) > 2 THEN Threw("InvalidFormat")
      ELSE IF IsThrow(payload) THEN payload
      ELSE IF Len(pieces) = 2
        THEN IF ~validChecksum(pieces[1], payload.result)
               THEN Threw("InvalidChecksum")
               ELSE [prefix |-> pieces[1], payload |-> payload.result]
      ELSE LET found == FindPrefix(cashAddrPrefixes, payload.result, 1)
           IN  IF found = NoPrefix
                 THEN Threw("InvalidChecksum")
                 ELSE [prefix |-> found, payload |-> payload.result]

\* payload.slice(0, -8)
DropLast8(payload) ==
  IF Len(payload) <= 8 THEN << >> ELSE SubSeq(payload, 1, Len(payload) - 8)

\* A decoder that looks at the type bits before the hash size.
HashOfPayloadTypeFirst(payload) ==
  LET convertedBits == convertBits(DropLast8(payload), 5, 8, TRUE)
      versionByte   == convertedBits.result[1]
      hash          == Tail(convertedBits.result)
  IN  IF IsThrow(convertedBits) THEN convertedBits
      ELSE IF convertedBits.result = << >> THEN Threw("BadVersionByte")
      ELSE IF getType(versionByte) \notin {pubkeyhash, scripthash}
        THEN Threw("InvalidAddressType")
      ELSE IF getHashSize(versionByte) # Len(hash) * 8
        THEN Threw("InvalidHashSize")
      ELSE [scriptHash |-> hash, type |-> getType(versionByte)]

\* Lines 251-281, for the payload symbols of an address whose checksum has
\* been validated.
HashOfPayload(payload) ==
  LET convertedBits == convertBits(DropLast8(payload), 5, 8, TRUE)
      versionByte   == convertedBits.result[1]
      hash          == Tail(convertedBits.result)
  IN  IF IsThrow(convertedBits) THEN convertedBits
      ELSE IF convertedBits.result = << >> THEN Threw("BadVersionByte")
      ELSE IF getHashSize(versionByte) # Len(hash) * 8
        THEN Threw("InvalidHashSize")
      ELSE IF getType(versionByte) \notin {pubkeyhash, scripthash}
        THEN Threw("InvalidAddressType")
      ELSE [scriptHash |-> hash, type |-> getType(versionByte)]

\* The whole function: its local `prefix` at the end (NoPrefix when it threw
\* before resolving one) and what it returned or threw.
cashAddressToHashRun(address, cashAddrPrefixes) ==
  LET r == ResolvePrefix(address, cashAddrPrefixes)
  IN  IF IsThrow(r)
        THEN [prefix |-> NoPrefix, info |-> r]
        ELSE [prefix |-> r.prefix, info |-> HashOfPayload(r.payload)]

cashAddressToHash(address, cashAddrPrefixes) ==
  cashAddressToHashRun(address, cashAddrPrefixes).info

----------------------------------------------------------------------------
(* The inputs the codec is run on.                                         *)

\* The number of fill patterns of the hashes.
NumPatterns == 2
\* The longest cashAddrPrefixes list.
MaxCandidates == 2
\* The most corruptions applied to one address.
MaxDefects == 2
\* The number of hash sizes, smallest first, whose addresses get every
\* single-character substitution.
SubstSizes == 1

\* "bitcoincash", "bchtest"; "bitcoinca3h" has the symbols of "bitcoincash"
\* ('3' and 's' share their low 5 bits).
bitcoincash == << 98, 105, 116, 99, 111, 105, 110, 99, 97, 115, 104 >>
bchtest     == << 98, 99, 104, 116, 101, 115, 116 >>
bitcoinca3h == << 98, 105, 116, 99, 111, 105, 110, 99, 97, 51, 104 >>

EncoderPrefixes == {bitcoincash, bchtest}
CandidatePrefixes == {bitcoincash, bitcoinca3h, bchtest}
CandidateLists ==
  UNION {[1..n -> CandidatePrefixes] : n \in 0..MaxCandidates}

\* The hash lengths getHashSizeBits knows, in bytes, smallest first.
HashLengths == << 20, 24, 28, 32, 40, 48, 56, 64 >>

\* The hash of n bytes with fill pattern k: all zero for k = 0.
HashBytes(n, k) ==
  [i \in 1..n |-> IF k = 0 THEN 0 ELSE (37 * i * k + 11) % 256]

HashBuffers ==
  {HashBytes(HashLengths[s], k) : s \in 1..Len(HashLengths),
                                   k \in 0..(NumPatterns - 1)}

\* buffer.toString('hex')
HexDigit(v) == IF v < 10 THEN 48 + v ELSE 87 + v
HexOf(buffer) ==
  [i \in 1..(2 * Len(buffer)) |->
     IF i % 2 = 1 THEN HexDigit(buffer[(i + 1) \div 2] \div 16)
                  ELSE HexDigit(buffer[i \div 2] % 16)]

\* The hashes whose addresses are substituted: the last fill pattern, in the
\* SubstSizes smallest sizes.
SubstHashes ==
  {HexOf(HashBytes(HashLengths[s], NumPatterns - 1)) :
     s \in 1..(IF SubstSizes < Len(HashLengths) THEN SubstSizes
               ELSE Len(HashLengths))}

None == [none |-> TRUE]

Init ==
  /\ pc = "start"
  /\ encScriptHash = << >>
  /\ encType = ""
  /\ encPrefix = << >>
  /\ encInclude = FALSE
  /\ addr = << >>
  /\ origin = ""
  /\ defects = 0
  /\ candidates = << >>
  /\ resolved = NoPrefix
  /\ outcome = None
  /\ serverCacheDirty = FALSE
  /\ serversRev = 0
  /\ flaggedRev = 0
  /\ diskRev = 0
  /\ saves = << >>
  /\ saveCalls = 0

\* A call of hashToCashAddress.
Encode(h, t, p, incl) ==
  /\ pc = "start"
  /\ LET r == hashToCashAddress(HexOf(h), t, p, incl)
     IN  /\ encScriptHash' = HexOf(h)
         /\ encType' = t
         /\ encPrefix' = p
         /\ encInclude' = incl
         /\ IF IsThrow(r)
              THEN pc' = "done" /\ outcome' = r /\ UNCHANGED << addr, origin >>
              ELSE /\ pc' = "ready"
                   /\ addr' = r.address
                   /\ origin' = "encoded"
                   /\ UNCHANGED outcome
  /\ UNCHANGED << defects, candidates, resolved, cacheVars >>

\* One character of the payload of an encoded address replaced by another
\* character of the alphabet.
Substitute(pos, ch) ==
  /\ pc = "ready"
  /\ origin = "encoded"
  /\ encInclude
  /\ encPrefix = bitcoincash
  /\ encScriptHash \in SubstHashes
  /\ pos \in (Len(encPrefix) + 2)..Len(addr)
  /\ ch # addr[pos]
  /\ addr' = [addr EXCEPT ![pos] = ch]
  /\ origin' = "substituted"
  /\ UNCHANGED << pc, encScriptHash, encType, encPrefix, encInclude, defects,
                  candidates, resolved, outcome, cacheVars >>

\* An address made by hand: any version byte, a payload that may break the
\* padding rule, and the checksum that fits it.
CraftedData(h, typeBits, sizeShift, tweak) ==
  LET versionByte == typeBits + ((getHashSizeBits(h) + sizeShift) % 8)
      data == convertBits(<< versionByte >> \o h, 8, 5, FALSE).result
  IN  CASE tweak = "canonical" -> data
        [] tweak = "lastbit" ->
             [data EXCEPT ![Len(data)] = xor5(data[Len(data)], 1)]
        [] tweak = "extra" -> Append(data, 0)
        [] tweak = "empty" -> << >>

Craft(h, typeBits, sizeShift, tweak, p) ==
  /\ pc = "start"
  /\ addr' = p \o << COLON >>
               \o encode(WithChecksum(p, CraftedData(h, typeBits, sizeShift, tweak)))
  /\ encPrefix' = p
  /\ origin' = "crafted"
  /\ pc' = "ready"
  /\ UNCHANGED << encScriptHash, encType, encInclude, defects, candidates,
                  resolved, outcome, cacheVars >>

\* An encoded address damaged: a letter or all of them in upper case, a
\* separator added at the end, a character outside the alphabet at the end.
Defects == << "upperFirst", "upperLast", "upperAll", "colon", "badChar" >>

Corrupted(string, defect) ==
  CASE defect = "upperFirst" ->
         [string EXCEPT ![1] = toUpperCase(<< string[1] >>)[1]]
    [] defect = "upperLast" ->
         [string EXCEPT ![Len(string)] = toUpperCase(<< string[Len(string)] >>)[1]]
    [] defect = "upperAll" -> toUpperCase(string)
    [] defect = "colon" -> Append(string, COLON)
    [] defect = "badChar" -> [string EXCEPT ![Len(string)] = 98]

\* The defects of the set chosen, applied in the order of Defects.
RECURSIVE CorruptedBy(_, _, _)
CorruptedBy(string, chosen, i) ==
  IF i > Len(Defects) THEN string
  ELSE CorruptedBy(IF Defects[i] \in chosen THEN Corrupted(string, Defects[i])
                   ELSE string, chosen, i + 1)

Corrupt(chosen) ==
  /\ pc = "ready"
  /\ origin = "encoded"
  /\ chosen # {}
  /\ Cardinality(chosen) <= MaxDefects
  /\ addr' = CorruptedBy(addr, chosen, 1)
  /\ origin' = "corrupted"
  /\ defects' = Cardinality(chosen)
  /\ UNCHANGED << pc, encScriptHash, encType, encPrefix, encInclude,
                  candidates, resolved, outcome, cacheVars >>

\* A call of cashAddressToHash.  An encoded address is decoded with every
\* list of candidates, a crafted one with the lists of one candidate at most,
\* any other with the prefix it was made for.
Decode(list) ==
  /\ pc = "ready"
  /\ origin = "crafted" => Len(list) <= 1
  /\ origin \notin {"encoded", "crafted"} => list = << encPrefix >>
  /\ LET run == cashAddressToHashRun(addr, list)
     IN  /\ resolved' = run.prefix
         /\ outcome' = run.info
  /\ candidates' = list
  /\ pc' = "done"
  /\ UNCHANGED << encScriptHash, encType, encPrefix, encInclude, addr, origin,
                  defects, cacheVars >>

Next ==
  \/ \E h \in HashBuffers, t \in {pubkeyhash, scripthash},
        p \in EncoderPrefixes, incl \in BOOLEAN : Encode(h, t, p, incl)
  \/ \E pos \in 1..Len(addr), ch \in {CHARSET[k] : k \in 1..Len(CHARSET)} :
       Substitute(pos, ch)
  \/ \E h \in HashBuffers, typeBits \in {0, 8, 16, 128}, sizeShift \in {0, 1},
        tweak \in {"canonical", "lastbit", "extra", "empty"} :
       Craft(h, typeBits, sizeShift, tweak, bitcoincash)
  \/ \E chosen \in SUBSET {Defects[d] : d \in 1..Len(Defects)} :
       Corrupt(chosen)
  \/ \E list \in CandidateLists : Decode(list)

Spec == Init /\ [][Next]_vars

----------------------------------------------------------------------------
(* Properties of the codec, on the states of Spec.                         *)

\* cashAddressToHash has been called on addr with the candidates.
Decoded == pc = "done" /\ origin # ""

\* What the encoder was given, as the decoder returns it.
Expected == [scriptHash |-> BufferFromHex(encScriptHash), type |-> encType]

\* The encoder's output was decoded with the list [encPrefix].
RoundTripped ==
  Decoded /\ origin = "encoded" /\ candidates = << encPrefix >>

\* The part of the address after the separator, and its symbols.
PayloadString(string) == split(toLowerCase(string))[Len(split(string))]
PayloadSymbols(string) == decode(PayloadString(string)).result

\* The string has an upper case and a lower case letter.
MixedCase(string) ==
  /\ \E i \in 1..Len(string) : string[i] \in 65..90
  /\ \E j \in 1..Len(string) : string[j] \in 97..122

\* All the characters of the string are of the base32 alphabet, in either case.
InAlphabet(string) ==
  \A i \in 1..Len(string) :
    \E c \in 1..Len(CHARSET) :
      string[i] = CHARSET[c] \/ string[i] = toUpperCase(<< CHARSET[c] >>)[1]

C2_ChecksumSensitivity ==
  (Decoded /\ origin = "substituted") => outcome = Threw("InvalidChecksum")

C2_Witness ==
  LET made == hashToCashAddress(encScriptHash, encType, encPrefix, TRUE).address
  IN  /\ Decoded /\ origin = "substituted"
      /\ Len(made) = Len(addr)
      /\ Cardinality({i \in 1..Len(addr) : addr[i] # made[i]}) = 1
      /\ addr[Len(encPrefix) + 2] # made[Len(encPrefix) + 2]
      /\ InAlphabet(PayloadString(addr))
      /\ outcome = Threw("InvalidChecksum")

LeftoverBits(data) == (5 * Len(data)) % 8
PaddingViolated(data) ==
  \/ LeftoverBits(data) >= 5
  \/ /\ Len(data) > 0
     /\ data[Len(data)] % (2 ^ LeftoverBits(data)) # 0

\* C4: an address whose checksum is valid for its prefix and whose data
\* symbols break the padding rule fails to decode with the padding error.
C4_PaddingRejected ==
  (/\ Decoded
   /\ resolved # NoPrefix
   /\ PaddingViolated(DropLast8(PayloadSymbols(addr))))
    => outcome = Threw("InvalidPadding")

C4_Witness ==
  /\ Decoded
  /\ resolved # NoPrefix
  /\ LeftoverBits(DropLast8(PayloadSymbols(addr))) \in 1..4
  /\ PaddingViolated(DropLast8(PayloadSymbols(addr)))
  /\ outcome = Threw("InvalidPadding")

\* C5: an address with an upper case and a lower case letter fails to decode
\* with the mixed-case error, whatever else is wrong with it.
C5_MixedCaseFirst ==
  (Decoded /\ MixedCase(addr)) => outcome = Threw("MixedCase")

C5_Witness ==
  /\ Decoded
  /\ MixedCase(addr)
  /\ Len(split(addr)) > 2
  /\ outcome = Threw("MixedCase")

\* The places in the list of the candidates whose checksum validates:
\* polymod of prefix symbols ++ [0] ++ payload symbols is zero.
Validating(list, string) ==
  {c \in 1..Len(list) :
     polymod([i \in 1..Len(list[c]) |-> list[c][i] % 32] \o << 0 >>
             \o PayloadSymbols(string)) = BNZero}

\* C6: for an address with no separator, the prefix is resolved to the first
\* candidate of the list whose checksum validates, and the decoding fails with
\* the invalid-checksum error exactly when none validates.
C6_PrefixDiscovery ==
  (/\ Decoded
   /\ Len(split(addr)) = 1
   /\ ~MixedCase(addr)
   /\ InAlphabet(addr))
    => LET valid == Validating(candidates, addr)
       IN  /\ valid = {} <=> outcome = Threw("InvalidChecksum")
           /\ valid = {} => resolved = NoPrefix
           /\ valid # {} =>
                \E c \in valid : /\ resolved = candidates[c]
                                 /\ \A d \in valid : c <= d

C6_Witness ==
  /\ Decoded
  /\ Len(split(addr)) = 1
  /\ candidates = << bitcoinca3h, bitcoincash >>
  /\ Validating(candidates, addr) = {1, 2}
  /\ resolved = bitcoinca3h
  /\ outcome = Expected

\* C7: an accepted lower case address is the one the encoder makes, under the
\* resolved prefix, for the hash and the type it decodes to.
C7_Canonical ==
  (/\ Decoded
   /\ ~IsThrow(outcome)
   /\ addr = toLowerCase(addr))
    => hashToCashAddress(HexOf(outcome.scriptHash), outcome.type, resolved,
                         FALSE)
         = [address |-> PayloadString(addr)]

\* The size in bits coded by versionByte & 7.
SizeTable == << 160, 192, 224, 256, 320, 384, 448, 512 >>

\* The bytes the data symbols of the address regroup to, once the checksum
\* and the padding have passed: the version byte and the hash.
Regrouped(string) == convertBits(DropLast8(PayloadSymbols(string)), 5, 8, TRUE)
ChecksPassed(string) ==
  /\ Decoded
  /\ resolved # NoPrefix
  /\ ~IsThrow(Regrouped(string))
  /\ Regrouped(string).result # << >>

\* C8: once the checksum and the padding have passed, a hash whose length is
\* not the one coded by versionByte & 7 fails with the hash-size error, type
\* bits good or bad; what is returned is a hash of 20, 24, 28, 32, 40, 48, 56
\* or 64 bytes, the size its version byte codes, with the type that
\* versionByte & 0x78 codes: 0 pubkeyhash, 8 scripthash.
C8_VersionByte ==
  ChecksPassed(addr)
    => LET versionByte == Regrouped(addr).result[1]
           hash        == Tail(Regrouped(addr).result)
           typeBits    == 8 * ((versionByte \div 8) % 16)
       IN  /\ Len(hash) * 8 # SizeTable[(versionByte % 8) + 1]
                => outcome = Threw("InvalidHashSize")
           /\ ~IsThrow(outcome)
                => /\ outcome.scriptHash = hash
                   /\ Len(hash) \in {20, 24, 28, 32, 40, 48, 56, 64}
                   /\ Len(hash) * 8 = SizeTable[(versionByte % 8) + 1]
                   /\ typeBits \in {0, 8}
                   /\ typeBits = 0 => outcome.type = pubkeyhash
                   /\ typeBits = 8 => outcome.type = scripthash

C8_Witness ==
  /\ ChecksPassed(addr)
  /\ (Regrouped(addr).result[1] \div 8) % 16 \notin {0, 1}
  /\ Len(Regrouped(addr).result) - 1 = 20
  /\ outcome = Threw("InvalidHashSize")

\* C9: for an address with one separator, what cashAddressToHash returns or
\* throws is the same for every list of candidates, the empty list and the
\* lists without the prefix included.
C9_ExplicitPrefix ==
  (Decoded /\ Len(split(addr)) = 2)
    => /\ outcome = cashAddressToHash(addr, << >>)
       /\ origin = "encoded" => outcome = Expected

C9_Witness ==
  /\ Decoded
  /\ Len(split(addr)) = 2
  /\ origin = "encoded"
  /\ encPrefix = bitcoincash
  /\ candidates = << bchtest >>
  /\ outcome = Expected

----------------------------------------------------------------------------
(* PluginState: the dirty flag of the server cache and its saves.          *)
(* servers_ is followed by its revision: serversRev counts the changes     *)
(* made to it, diskRev is the revision serverCache.json holds.  A save     *)
(* in flight is a call of memlet.setJson that has not returned: it         *)
(* serializes servers_ at some point after the call, and the writes land   *)
(* in the order of the calls.                                              *)

\* The most changes made to servers_.
MaxChanges == 3
\* The most calls of saveServerCache.
MaxSaveCalls == 3

\* The body of saveServerCache up to its await: nothing unless the flag is
\* set, else a call of setJson in flight.
SavesAfterCall ==
  IF serverCacheDirty'
    THEN Append(saves, [serialized |-> FALSE, content |-> 0])
    ELSE saves

\* dirtyServerCache(serverUrl), called after a change of servers_: the flag
\* is set, and saveServerCache is called if an engine that is fully synced
\* lists the server.
dirtyServerCache(engineSynced) ==
  /\ serversRev < MaxChanges
  /\ engineSynced => saveCalls < MaxSaveCalls
  /\ serversRev' = serversRev + 1
  /\ flaggedRev' = serversRev + 1
  /\ serverCacheDirty' = TRUE
  /\ IF engineSynced
       THEN saves' = SavesAfterCall /\ saveCalls' = saveCalls + 1
       ELSE UNCHANGED << saves, saveCalls >>
  /\ UNCHANGED << diskRev, codecVars >>

\* saveServerCache() called by fetchServers: up to the await.
saveServerCache ==
  /\ saveCalls < MaxSaveCalls
  /\ saveCalls' = saveCalls + 1
  /\ UNCHANGED << serverCacheDirty, serversRev, flaggedRev, diskRev, codecVars >>
  /\ saves' = SavesAfterCall

\* setJson serializes this.servers_ as it then is.
Serialize(s) ==
  /\ s \in 1..Len(saves)
  /\ ~saves[s].serialized
  /\ saves' = [saves EXCEPT ![s] = [serialized |-> TRUE, content |-> serversRev]]
  /\ UNCHANGED << serverCacheDirty, serversRev, flaggedRev, diskRev, saveCalls,
                  codecVars >>

\* The await returns: the file holds what was serialized, and the lines after
\* the await clear the flag.
WriteDone ==
  /\ saves # << >>
  /\ saves[1].serialized
  /\ diskRev' = saves[1].content
  /\ serverCacheDirty' = FALSE
  /\ saves' = Tail(saves)
  /\ UNCHANGED << serversRev, flaggedRev, saveCalls, codecVars >>

\* The await throws: the catch logs, the flag stays.
WriteFail ==
  /\ saves # << >>
  /\ saves' = Tail(saves)
  /\ UNCHANGED << serverCacheDirty, serversRev, flaggedRev, diskRev, saveCalls,
                  codecVars >>

NextCache ==
  \/ \E engineSynced \in BOOLEAN : dirtyServerCache(engineSynced)
  \/ saveServerCache
  \/ \E s \in 1..MaxSaveCalls : Serialize(s)
  \/ WriteDone
  \/ WriteFail

SpecCache == Init /\ [][NextCache]_vars

\* C10: when the flag is clear and no write is in flight, serverCache.json
\* holds every change flagged through dirtyServerCache.
C10_NoLostUpdate ==
  (~serverCacheDirty /\ saves = << >>) => diskRev >= flaggedRev

====
